---- MODULE Spec2Model ----
(***************************************************************************)
(* Taylor-expansion emulator engine (desilike/emulators/taylor.py).        *)
(*                                                                         *)
(* Numbers.  Coordinates, offsets and the derivative values of Y are       *)
(* integers.  The running prefactor 1/order! and everything multiplied by  *)
(* it (the fitted coefficients, the output of predict) are exact rationals *)
(* written as integer multiples of 1/Unit, Unit = MaxOrder!: the float 1.  *)
(* is Unit, and "prefactor /= order" is an exact integer division.         *)
(* Floating-point rounding is not modelled.                                *)
(***************************************************************************)
EXTENDS Integers, Sequences, FiniteSets, TLC

\* Largest total differentiation order of an entry of Y.
MaxOrder == 2
\* Largest number of MPI processes of the communicator.
NRanks == 2

\* The largest number of points given to one call of predict.
MaxBatch == 3

\* The largest number of rows of a table X drawn value by value.
MaxRows == 3

\* The largest number of calls of fit on one engine.
MaxFits == 2

\* The largest number of output components of a derivative value.
MaxComps == 2

\* The lists of varied parameters the engine is initialized with.
Configs == {<<"a">>, <<"a", "b">>}

\* Offsets from the center at which predict is probed.
ProbeOffsets == {-2, 0, 1}

RECURSIVE Factorial(_)
Factorial(n) == IF n <= 0 THEN 1 ELSE n * Factorial(n - 1)

\* The fixed-point representation of the float 1.
Unit == Factorial(MaxOrder)

RECURSIVE SumSeq(_)
SumSeq(s) == IF Len(s) = 0 THEN 0 ELSE s[1] + SumSeq(Tail(s))

RECURSIVE ProdSeq(_)
ProdSeq(s) == IF Len(s) = 0 THEN 1 ELSE s[1] * ProdSeq(Tail(s))

RECURSIVE IntPow(_, _)
IntPow(b, e) == IF e <= 0 THEN 1 ELSE b * IntPow(b, e - 1)

Range(s) == {s[i] : i \in DOMAIN s}

SetMin(S) == CHOOSE x \in S : \A y \in S : x <= y

SetMax(S) == CHOOSE x \in S : \A y \in S : x >= y

\* None and a present value of an attribute or a broadcast buffer.
None == [some |-> FALSE, v |-> <<>>]

Some(x) == [some |-> TRUE, v |-> x]

(***************************************************************************)
(* Deriv: a mapping from parameter name to order.  Deriv(dict(zip(...)))   *)
(* pairs the varied parameters with the entries of an orders array.        *)
(***************************************************************************)
Deriv(params, orders) ==
    [p \in Range(params) |-> orders[CHOOSE i \in DOMAIN params : params[i] = p]]

\* deriv[param] for the varied parameters, in their order.
DerivOrders(params, deriv) == [i \in DOMAIN params |-> deriv[params[i]]]

\* deriv.total()
DerivTotal(params, deriv) == SumSeq(DerivOrders(params, deriv))

\* Every Deriv over params of total order at most MaxOrder.
AllDerivs(params) ==
    {f \in [Range(params) -> 0 .. MaxOrder] : DerivTotal(params, f) <= MaxOrder}

(***************************************************************************)
(* The samples.  X is a table, one row per evaluated point and one column  *)
(* per varied parameter.  Y holds the derivative values keyed by Deriv:    *)
(* derivs_none is "Y.derivs is None", DOMAIN values is Y.derivs and        *)
(* values[deriv] is Y[deriv].                                              *)
(***************************************************************************)
OrderValue(k) == IF k = 0 THEN 5 ELSE IF k = 1 THEN 2 ELSE 6 * (k - 1)

\* The value table the inputs are drawn from: 5, 2, 6 for the orders 0, 1, 2
\* of the first parameter, shifted for every order taken in a later parameter.
SampleValue(params, deriv) ==
    OrderValue(DerivTotal(params, deriv))
        - 7 * SumSeq([i \in DOMAIN params |-> (i - 1) * deriv[params[i]]])

ValueScales == {0, 1}

NoDerivs == [derivs_none |-> TRUE, values |-> <<>>]

YSamples(params) ==
    {NoDerivs} \cup
    {[derivs_none |-> FALSE,
      values |-> [deriv \in S |-> scale * SampleValue(params, deriv)]] :
        S \in SUBSET AllDerivs(params), scale \in ValueScales}

\* A grid of three points around c in every column, the central one repeated.
GridSamples(params, c) ==
    << [i \in DOMAIN params |-> c + 2 * i],
       [i \in DOMAIN params |-> c + 2 * i - 2],
       [i \in DOMAIN params |-> c + 2 * i + 2],
       [i \in DOMAIN params |-> c + 2 * i] >>

\* Two points per column: an even number of distinct values.
PairSamples(params, c) ==
    << [i \in DOMAIN params |-> c], [i \in DOMAIN params |-> c + 4 * i] >>

XSamples(params) == {GridSamples(params, 0), PairSamples(params, 2)}

\* The values the tables drawn value by value are made of.
CoordValues == {0, 2, 6}

\* Every table of 1 .. MaxRows rows over CoordValues: rows repeat and come
\* in every order.
XTables(params) ==
    UNION {[1 .. n -> [DOMAIN params -> CoordValues]] : n \in 1 .. MaxRows}

(***************************************************************************)
(* fit, lines 34-61: the collection done by rank 0.                        *)
(***************************************************************************)
\* np.unique(xx) followed by np.median: the k-th smallest distinct value.
Ranked(S, k) == CHOOSE x \in S : Cardinality({y \in S : y < x}) = k - 1

\* The k-th smallest entry of xx, repeated entries counted.
RankedEntry(xx, k) ==
    CHOOSE x \in Range(xx) :
        /\ Cardinality({r \in DOMAIN xx : xx[r] < x}) < k
        /\ k <= Cardinality({r \in DOMAIN xx : xx[r] <= x})

MedianEntries(xx) ==
    LET n == Len(xx)
    IN  IF n % 2 = 1 THEN RankedEntry(xx, (n + 1) \div 2)
        ELSE (RankedEntry(xx, n \div 2) + RankedEntry(xx, n \div 2 + 1)) \div 2

\* np.median(np.unique(xx)); the sampled values are even, so the mean of the
\* two middle values is an integer.
MedianUnique(xx) ==
    LET S == Range(xx)
        n == Cardinality(S)
    IN  IF n % 2 = 1 THEN Ranked(S, (n + 1) \div 2)
        ELSE (Ranked(S, n \div 2) + Ranked(S, n \div 2 + 1)) \div 2

\* self.center = np.array([np.median(np.unique(xx)) for xx in X.T])
Center(X) ==
    [i \in DOMAIN X[1] |-> MedianUnique([r \in DOMAIN X |-> X[r][i]])]

\* max_param_order after the loop of lines 37-40.
MaxParamOrder(params, Y) ==
    [i \in DOMAIN params |->
        SetMax({0} \cup {deriv[params[i]] : deriv \in DOMAIN Y.values})]

MaxTotalOrderSummed(params, Y) == SumSeq(MaxParamOrder(params, Y))

\* max_order after the loop of lines 37-40.
MaxTotalOrder(params, Y) ==
    SetMax({0} \cup {DerivTotal(params, deriv) : deriv \in DOMAIN Y.values})

ProductAtDescending(ndim, order, j) ==
    [pos \in 1 .. order |->
        (ndim - 1) - (((j - 1) \div IntPow(ndim, order - pos)) % ndim)]

\* The j-th tuple (j = 1, 2, ...) of itertools.product(range(ndim), repeat=order):
\* lexicographic, the last position varying fastest.
ProductAt(ndim, order, j) ==
    [pos \in 1 .. order |-> ((j - 1) \div IntPow(ndim, order - pos)) % ndim]

RECURSIVE Binomial(_, _)
Binomial(n, k) ==
    IF k = 0 THEN 1 ELSE IF n = 0 THEN 0
    ELSE Binomial(n - 1, k - 1) + Binomial(n - 1, k)

ProductLenCombinations(ndim, order) == Binomial(order + ndim - 1, order)

\* The number of tuples of itertools.product(range(ndim), repeat=order).
ProductLen(ndim, order) == IntPow(ndim, order)

\* np.bincount(indices, minlength=ndim): occurrences of each parameter index.
bincount(indices, minlength) ==
    [i \in 1 .. minlength |->
        Cardinality({pos \in DOMAIN indices : indices[pos] = i - 1})]

SkippedAtLeast(orders, order, max_param_order) ==
    /\ order # 0
    /\ SumSeq(orders) >=
           SetMin({max_param_order[i] : i \in {k \in DOMAIN orders : orders[k] > 0}})

SkippedAboveLargest(orders, order, max_param_order) ==
    /\ order # 0
    /\ SumSeq(orders) >
           SetMax({max_param_order[i] : i \in {k \in DOMAIN orders : orders[k] > 0}})

\* The test of line 47.
Skipped(orders, order, max_param_order) ==
    /\ order # 0
    /\ SumSeq(orders) >
           SetMin({max_param_order[i] : i \in {k \in DOMAIN orders : orders[k] > 0}})

\* degrees.index(degree)
IndexOf(degrees, degree) ==
    SetMin({k \in DOMAIN degrees : degrees[k] = degree})

AccumulateOverwrite(derivatives, k, value) == [derivatives EXCEPT ![k] = value]

\* self.derivatives[degrees.index(degree)] += value
Accumulate(derivatives, k, value) == [derivatives EXCEPT ![k] = @ + value]

\* value = prefactor * Y[degree]
Contribution(prefactor, Y, degree) == prefactor * Y.values[degree]

ContainsNever(degrees, degree) == FALSE

\* degree in degrees
Contains(degrees, degree) == \E k \in DOMAIN degrees : degrees[k] = degree

MissingAsZero(st, degree, orders) ==
    IF Contains(st.degrees, degree) THEN st
    ELSE [st EXCEPT !.warned = @ \cup {degree},
                    !.degrees = Append(@, degree),
                    !.powers = Append(@, orders),
                    !.derivatives = Append(@, 0)]

\* Lines 50-53: a degree absent from Y.derivs is warned about and dropped.
Missing(st, degree, orders) == [st EXCEPT !.warned = @ \cup {degree}]

AppendTermFirst(st, degree, orders, value) ==
    [st EXCEPT !.degrees = <<degree>> \o @,
               !.powers = <<orders>> \o @,
               !.derivatives = <<value>> \o @]

\* Lines 58-60: a degree met for the first time gets the next row.
AppendTerm(st, degree, orders, value) ==
    [st EXCEPT !.degrees = Append(@, degree),
               !.powers = Append(@, orders),
               !.derivatives = Append(@, value)]

\* The body of the loop of line 44 for one tuple of indices.  st holds the
\* locals and attributes the loop updates; visits counts the tuples seen at
\* each order, warned collects the degrees named in a warning and added the
\* values of line 54.
Candidate(st, params, Y, max_param_order, order, indices) ==
    LET orders == bincount(indices, Len(params))
        degree == Deriv(params, orders)
        seen == [st EXCEPT !.visits[order + 1] = @ + 1]
    IN  IF Skipped(orders, order, max_param_order) THEN seen
        ELSE IF degree \notin DOMAIN Y.values
        THEN Missing(seen, degree, orders)
        ELSE LET value == Contribution(st.prefactor, Y, degree)
                 noted == [seen EXCEPT !.added =
                              Append(@, [degree |-> degree, value |-> value])]
             IN  IF Contains(st.degrees, degree)
                 THEN [noted EXCEPT !.derivatives =
                          Accumulate(@, IndexOf(st.degrees, degree), value)]
                 ELSE AppendTerm(noted, degree, orders, value)

RECURSIVE CandidateLoop(_, _, _, _, _, _)
CandidateLoop(st, params, Y, max_param_order, order, j) ==
    IF j > ProductLen(Len(params), order) THEN st
    ELSE CandidateLoop(
             Candidate(st, params, Y, max_param_order, order,
                       ProductAt(Len(params), order, j)),
             params, Y, max_param_order, order, j + 1)

NextPrefactorKept(prefactor, order) == prefactor

NextPrefactorAhead(prefactor, order) == prefactor \div (order + 1)

\* if order: prefactor /= order
NextPrefactor(prefactor, order) ==
    IF order # 0 THEN prefactor \div order ELSE prefactor

RECURSIVE OrderLoop(_, _, _, _, _, _)
OrderLoop(st, params, Y, max_param_order, max_order, order) ==
    IF order > max_order THEN st
    ELSE OrderLoop(
             CandidateLoop([st EXCEPT !.prefactor = NextPrefactor(@, order),
                                      !.visits = Append(@, 0)],
                           params, Y, max_param_order, order, 1),
             params, Y, max_param_order, max_order, order + 1)

\* Lines 33-61 on rank 0: the attributes after np.array(...), with the
\* warnings emitted and the tuples visited on the way.
Collect(params, X, Y) ==
    LET max_order == MaxTotalOrder(params, Y)
        st0 == [prefactor |-> Unit, degrees |-> <<>>, powers |-> <<>>,
                derivatives |-> <<>>, warned |-> {}, visits |-> <<>>,
                added |-> <<>>]
        st == OrderLoop(st0, params, Y, MaxParamOrder(params, Y), max_order, 0)
    IN  [center |-> Center(X), derivatives |-> st.derivatives,
         powers |-> st.powers, warned |-> st.warned, visits |-> st.visits,
         added |-> st.added]

(***************************************************************************)
(* predict, lines 66-70, for a one-dimensional X.  Arrays combine under    *)
(* numpy broadcasting: two axes are compatible when their lengths are      *)
(* equal or one of them is 1.                                              *)
(***************************************************************************)
Broadcastable(m, n) == m = n \/ m = 1 \/ n = 1

BroadcastLen(m, n) == IF m = 1 THEN n ELSE m

\* Element i of an axis stretched by broadcasting.
At(s, i) == IF Len(s) = 1 THEN s[1] ELSE s[i]

\* jnp.power(x, p) for an integer power p >= 0; 0 ** 0 is 1.
power(x, p) == IntPow(x, p)

\* jnp.where(p > 0, diff, 0.)
where(p, diff) == IF p > 0 THEN diff ELSE 0

MaskedPowerOfPower(diff, p) == power(diff, IF p > 0 THEN p ELSE 1)

\* One entry of jnp.power(jnp.where(self.powers > 0, diffs, 0.), self.powers).
MaskedPower(diff, p) == power(where(p, diff), p)

DiffsSum(X, center) ==
    [i \in 1 .. BroadcastLen(Len(X), Len(center)) |-> At(X, i) + At(center, i)]

\* jnp.array(X - self.center)
Diffs(X, center) ==
    [i \in 1 .. BroadcastLen(Len(X), Len(center)) |-> At(X, i) - At(center, i)]

\* Lines 68-69 for one row of self.powers: the product over the last axis.
BasisValue(diffs, row) ==
    ProdSeq([i \in 1 .. BroadcastLen(Len(diffs), Len(row)) |->
                MaskedPower(At(diffs, i), At(row, i))])

TensordotShifted(derivatives, basis) ==
    SumSeq([j \in DOMAIN derivatives |-> derivatives[j] * basis[1]])

\* jnp.tensordot(self.derivatives, powers, axes=(0, 0))
Tensordot(derivatives, basis) ==
    SumSeq([j \in DOMAIN derivatives |-> derivatives[j] * basis[j]])

\* Whether predict returns: X - center must broadcast, the offsets must
\* broadcast against the rows of powers, and with no row at all the product
\* of line 69 is a scalar that tensordot cannot contract over axis 0.
PredictDefined(X, center, powers) ==
    /\ Broadcastable(Len(X), Len(center))
    /\ Len(powers) > 0
    /\ Broadcastable(BroadcastLen(Len(X), Len(center)), Len(powers[1]))

\* The result of predict: ok is FALSE when an exception is raised.
predict(X, center, powers, derivatives) ==
    IF ~PredictDefined(X, center, powers) THEN [ok |-> FALSE, out |-> 0]
    ELSE LET diffs == Diffs(X, center)
             basis == [j \in DOMAIN powers |-> BasisValue(diffs, powers[j])]
         IN  [ok |-> TRUE, out |-> Tensordot(derivatives, basis)]

(***************************************************************************)
(* predict, lines 66-70, for a two-dimensional X of m points (rows).  The  *)
(* offsets have shape (m, d); against the n rows of powers the first axis  *)
(* broadcasts when m = n, m = 1 or n = 1, the product of line 69 has one   *)
(* entry per row of the broadcast shape, and tensordot contracts it with   *)
(* the n derivatives, so it must have n entries.  Entry j of the product   *)
(* is built from point j (from the only point when m = 1) and row j of     *)
(* powers; the result is one number.                                       *)
(***************************************************************************)
RowsDefined(X, center, powers) ==
    /\ Broadcastable(Len(X[1]), Len(center))
    /\ Len(powers) > 0
    /\ Broadcastable(BroadcastLen(Len(X[1]), Len(center)), Len(powers[1]))
    /\ Broadcastable(Len(X), Len(powers))
    /\ BroadcastLen(Len(X), Len(powers)) = Len(powers)

predictRows(X, center, powers, derivatives) ==
    IF ~RowsDefined(X, center, powers) THEN [ok |-> FALSE, out |-> 0]
    ELSE LET diffs == [k \in DOMAIN X |-> Diffs(X[k], center)]
             basis == [j \in DOMAIN powers |->
                          BasisValue(At(diffs, j), powers[j])]
         IN  [ok |-> TRUE, out |-> Tensordot(derivatives, basis)]

(***************************************************************************)
(* fit and predict where Y[degree] is an array of output components.  The  *)
(* loops of lines 44-60 are the same; lines 54 and 56 act on every         *)
(* component, np.array of line 61 gives one row per term and one column    *)
(* per component, and tensordot contracts the rows.                        *)
(***************************************************************************)
\* value = prefactor * Y[degree], elementwise
ContributionArr(prefactor, Y, degree) ==
    [c \in DOMAIN Y.values[degree] |-> prefactor * Y.values[degree][c]]

\* self.derivatives[degrees.index(degree)] += value, elementwise
AccumulateArr(derivatives, k, value) ==
    [derivatives EXCEPT
        ![k] = [c \in DOMAIN derivatives[k] |-> derivatives[k][c] + value[c]]]

CandidateArr(st, params, Y, max_param_order, order, indices) ==
    LET orders == bincount(indices, Len(params))
        degree == Deriv(params, orders)
        seen == [st EXCEPT !.visits[order + 1] = @ + 1]
    IN  IF Skipped(orders, order, max_param_order) THEN seen
        ELSE IF degree \notin DOMAIN Y.values
        THEN Missing(seen, degree, orders)
        ELSE LET value == ContributionArr(st.prefactor, Y, degree)
                 noted == [seen EXCEPT !.added =
                              Append(@, [degree |-> degree, value |-> value])]
             IN  IF Contains(st.degrees, degree)
                 THEN [noted EXCEPT !.derivatives =
                          AccumulateArr(@, IndexOf(st.degrees, degree), value)]
                 ELSE AppendTerm(noted, degree, orders, value)

RECURSIVE CandidateLoopArr(_, _, _, _, _, _)
CandidateLoopArr(st, params, Y, max_param_order, order, j) ==
    IF j > ProductLen(Len(params), order) THEN st
    ELSE CandidateLoopArr(
             CandidateArr(st, params, Y, max_param_order, order,
                          ProductAt(Len(params), order, j)),
             params, Y, max_param_order, order, j + 1)

RECURSIVE OrderLoopArr(_, _, _, _, _, _)
OrderLoopArr(st, params, Y, max_param_order, max_order, order) ==
    IF order > max_order THEN st
    ELSE OrderLoopArr(
             CandidateLoopArr([st EXCEPT !.prefactor = NextPrefactor(@, order),
                                         !.visits = Append(@, 0)],
                              params, Y, max_param_order, order, 1),
             params, Y, max_param_order, max_order, order + 1)

\* Lines 33-61 on rank 0 for array values.
CollectArr(params, X, Y) ==
    LET max_order == MaxTotalOrder(params, Y)
        st0 == [prefactor |-> Unit, degrees |-> <<>>, powers |-> <<>>,
                derivatives |-> <<>>, warned |-> {}, visits |-> <<>>,
                added |-> <<>>]
        st == OrderLoopArr(st0, params, Y, MaxParamOrder(params, Y), max_order, 0)
    IN  [center |-> Center(X), derivatives |-> st.derivatives,
         powers |-> st.powers, warned |-> st.warned, visits |-> st.visits,
         added |-> st.added]

TensordotArrSummed(derivatives, basis) ==
    [c \in DOMAIN derivatives[1] |->
        SumSeq([j \in DOMAIN derivatives |-> SumSeq(derivatives[j]) * basis[j]])]

\* jnp.tensordot(self.derivatives, powers, axes=(0, 0)) for derivatives of
\* shape (terms, components): one sum over the terms per component.
TensordotArr(derivatives, basis) ==
    [c \in DOMAIN derivatives[1] |->
        SumSeq([j \in DOMAIN derivatives |-> derivatives[j][c] * basis[j]])]

\* Lines 66-70 for derivatives of shape (terms, components).
predictArr(X, center, powers, derivatives) ==
    IF ~PredictDefined(X, center, powers) THEN [ok |-> FALSE, out |-> <<>>]
    ELSE LET diffs == Diffs(X, center)
             basis == [j \in DOMAIN powers |-> BasisValue(diffs, powers[j])]
         IN  [ok |-> TRUE, out |-> TensordotArr(derivatives, basis)]

(***************************************************************************)
(* The engine on every rank of the communicator.                           *)
(*   size            mpicomm.size: the ranks are 0 .. size - 1             *)
(*   pc[r]           where rank r stands: "idle" before fit is called, a   *)
(*                   line of fit, "done" once fit has returned, "raised"   *)
(*                   once it has raised the ValueError of line 29          *)
(*   center, powers, derivatives                                           *)
(*                   the attributes of the engine of each rank             *)
(*   argX, argY      the arguments of fit on rank 0                        *)
(*   chan            the value rank 0 has given to each broadcast          *)
(*   warned, visits  the degrees named in a warning of line 52 and the     *)
(*                   number of tuples enumerated at each order, on rank 0  *)
(*   last            the last call of predict and its result               *)
(*   first           the first call of predict, where calls are recorded   *)
(*   state           the dictionary the last __getstate__ returned         *)
(*   restored        the last call of predict on an engine whose           *)
(*                   attributes were set from state                        *)
(*   batch           the last call of predict on a table of points         *)
(*   fits[r]         the number of calls of fit rank r has entered         *)
(*   before[r]       the attributes of rank r when it entered fit last,    *)
(*                   and on rank 0 the arguments of the call before        *)
(*   added           the contributions computed by line 54, in order       *)
(***************************************************************************)
VARIABLES varied_params, size, pc, center, powers, derivatives, argX, argY, chan,
          warned, visits, last, first, state, restored, batch, fits, before, added

vars == <<varied_params, size, pc, center, powers, derivatives, argX, argY, chan,
          warned, visits, last, first, state, restored, batch, fits, before, added>>

\* What the calls of fit leave behind for the properties.
fitlog == <<fits, before, added>>

\* What the calls made on a fitted engine leave behind, apart from last.
calls == <<first, state, restored, batch>>

Unposted == [posted |-> FALSE, v |-> FALSE]

\* The broadcasts of one call of fit before rank 0 has entered any.
NoPosts ==
    [flag |-> Unposted, derivatives |-> None, powers |-> None, center |-> None]

NoCall == [called |-> FALSE, X |-> <<>>, ok |-> FALSE, out |-> 0]

NoFirst == [called |-> FALSE, X |-> <<>>, ok |-> FALSE, out |-> 0,
            again |-> FALSE, others |-> FALSE]

Ranks == 0 .. (size - 1)

\* The engine after initialize, on a communicator of n processes.
InitSize(n) ==
    /\ varied_params \in Configs
    /\ size = n
    /\ pc = [r \in 0 .. (n - 1) |-> "idle"]
    /\ center = [r \in 0 .. (n - 1) |-> None]
    /\ powers = [r \in 0 .. (n - 1) |-> None]
    /\ derivatives = [r \in 0 .. (n - 1) |-> None]
    /\ argX = <<>>
    /\ argY = NoDerivs
    /\ chan = [flag |-> Unposted, derivatives |-> None, powers |-> None,
               center |-> None]
    /\ warned = {}
    /\ visits = <<>>
    /\ last = NoCall
    /\ first = NoFirst
    /\ state = None
    /\ restored = NoCall
    /\ batch = NoCall
    /\ fits = [r \in 0 .. (n - 1) |-> 0]
    /\ before = [r \in 0 .. (n - 1) |->
                    [center |-> None, powers |-> None, derivatives |-> None,
                     X |-> <<>>, Y |-> NoDerivs]]
    /\ added = <<>>

\* The attributes of rank r.
Attributes(r) ==
    [center |-> center[r], powers |-> powers[r], derivatives |-> derivatives[r]]

\* Rank r enters fit: the call is counted and its attributes are noted.
Entered(r) ==
    /\ fits' = [fits EXCEPT ![r] = @ + 1]
    /\ before' = [before EXCEPT
                     ![r] = [center |-> center[r], powers |-> powers[r],
                             derivatives |-> derivatives[r],
                             X |-> IF r = 0 THEN argX ELSE <<>>,
                             Y |-> IF r = 0 THEN argY ELSE NoDerivs]]

\* Rank 0 calls fit(X, Y).
FitEnterRoot(X, Y) ==
    /\ pc[0] = "idle"
    /\ pc' = [pc EXCEPT ![0] = "bcast_flag"]
    /\ argX' = X
    /\ argY' = Y
    /\ Entered(0)
    /\ UNCHANGED <<added, calls, varied_params, size, center, powers, derivatives, chan, warned,
                   visits, last>>

\* Another rank calls fit; its samples are not read.
FitEnterOther(r) ==
    /\ r # 0
    /\ pc[r] = "idle"
    /\ pc' = [pc EXCEPT ![r] = "bcast_flag"]
    /\ Entered(r)
    /\ UNCHANGED <<added, calls, varied_params, size, center, powers, derivatives, argX, argY, chan,
                   warned, visits, last>>

\* A rank whose call of fit has ended, by return or by the ValueError.
Ended(r) == pc[r] \in {"done", "raised"}

\* Rank 0 calls fit(X, Y) again.  The broadcasts of successive calls are
\* matched in order; chan holds those of one call, so rank 0 starts the next
\* call once every rank has ended the call before.
FitAgainRoot(X, Y) ==
    /\ fits[0] < MaxFits
    /\ \A r \in Ranks : Ended(r) /\ fits[r] = fits[0]
    /\ pc' = [pc EXCEPT ![0] = "bcast_flag"]
    /\ argX' = X
    /\ argY' = Y
    /\ chan' = NoPosts
    /\ warned' = {}
    /\ visits' = <<>>
    /\ added' = <<>>
    /\ Entered(0)
    /\ UNCHANGED <<calls, varied_params, size, center, powers, derivatives, last>>

\* Another rank calls fit again, after rank 0.
FitAgainOther(r) ==
    /\ r # 0
    /\ Ended(r)
    /\ fits[r] < fits[0]
    /\ pc' = [pc EXCEPT ![r] = "bcast_flag"]
    /\ Entered(r)
    /\ UNCHANGED <<added, calls, varied_params, size, center, powers, derivatives, argX,
                   argY, chan, warned, visits, last>>

BcastFlagRootOnly(r) ==
    /\ pc[r] = "bcast_flag"
    /\ r # 0 => chan.flag.posted
    /\ LET flag == IF r = 0 THEN argY.derivs_none ELSE FALSE
       IN  /\ chan' = IF r = 0
                      THEN [chan EXCEPT !.flag = [posted |-> TRUE, v |-> flag]]
                      ELSE chan
           /\ pc' = [pc EXCEPT ![r] = IF flag THEN "raised" ELSE "reset"]
    /\ UNCHANGED <<fitlog, calls, varied_params, size, center, powers, derivatives, argX, argY,
                   warned, visits, last>>

\* Lines 28-29: the broadcast of "Y.derivs is None" and the ValueError.
BcastFlag(r) ==
    /\ pc[r] = "bcast_flag"
    /\ r # 0 => chan.flag.posted
    /\ LET flag == IF r = 0 THEN argY.derivs_none ELSE chan.flag.v
       IN  /\ chan' = IF r = 0
                      THEN [chan EXCEPT !.flag = [posted |-> TRUE, v |-> flag]]
                      ELSE chan
           /\ pc' = [pc EXCEPT ![r] = IF flag THEN "raised" ELSE "reset"]
    /\ UNCHANGED <<fitlog, calls, varied_params, size, center, powers, derivatives, argX, argY,
                   warned, visits, last>>

\* Lines 30-31.
Reset(r) ==
    /\ pc[r] = "reset"
    /\ center' = [center EXCEPT ![r] = None]
    /\ derivatives' = [derivatives EXCEPT ![r] = None]
    /\ powers' = [powers EXCEPT ![r] = None]
    /\ pc' = [pc EXCEPT ![r] = IF r = 0 THEN "collect" ELSE "bcast_derivatives"]
    /\ UNCHANGED <<fitlog, calls, varied_params, size, argX, argY, chan, warned, visits, last>>

CollectRootCarried ==
    /\ pc[0] = "collect"
    /\ LET c == Collect(varied_params, argX, argY)
       IN  /\ center' = [center EXCEPT ![0] = Some(c.center)]
           /\ derivatives' = [derivatives EXCEPT
                                 ![0] = Some(before[0].derivatives.v \o c.derivatives)]
           /\ powers' = [powers EXCEPT
                            ![0] = Some(before[0].powers.v \o c.powers)]
           /\ warned' = c.warned
           /\ visits' = c.visits
           /\ added' = c.added
    /\ pc' = [pc EXCEPT ![0] = "bcast_derivatives"]
    /\ UNCHANGED <<fits, before, calls, varied_params, size, argX, argY, chan, last>>

\* Lines 32-61, on rank 0 alone.
CollectRoot ==
    /\ pc[0] = "collect"
    /\ LET c == Collect(varied_params, argX, argY)
       IN  /\ center' = [center EXCEPT ![0] = Some(c.center)]
           /\ derivatives' = [derivatives EXCEPT ![0] = Some(c.derivatives)]
           /\ powers' = [powers EXCEPT ![0] = Some(c.powers)]
           /\ warned' = c.warned
           /\ visits' = c.visits
           /\ added' = c.added
    /\ pc' = [pc EXCEPT ![0] = "bcast_derivatives"]
    /\ UNCHANGED <<fits, before, calls, varied_params, size, argX, argY, chan, last>>

\* Line 62.
BcastDerivatives(r) ==
    /\ pc[r] = "bcast_derivatives"
    /\ r # 0 => chan.derivatives.some
    /\ chan' = IF r = 0 THEN [chan EXCEPT !.derivatives = derivatives[0]] ELSE chan
    /\ derivatives' = [derivatives EXCEPT
                          ![r] = IF r = 0 THEN @ ELSE chan.derivatives]
    /\ pc' = [pc EXCEPT ![r] = "bcast_powers"]
    /\ UNCHANGED <<fitlog, calls, varied_params, size, center, powers, argX, argY, warned, visits,
                   last>>

BcastPowersRootSilent(r) ==
    /\ pc[r] = "bcast_powers"
    /\ r # 0 => chan.powers.some
    /\ powers' = [powers EXCEPT ![r] = IF r = 0 THEN @ ELSE chan.powers]
    /\ pc' = [pc EXCEPT ![r] = "bcast_center"]
    /\ UNCHANGED <<fitlog, calls, varied_params, size, center, derivatives, argX, argY,
                   chan, warned, visits, last>>

BcastPowersDropped(r) ==
    /\ pc[r] = "bcast_powers"
    /\ r # 0 => chan.powers.some
    /\ chan' = IF r = 0 THEN [chan EXCEPT !.powers = powers[0]] ELSE chan
    /\ pc' = [pc EXCEPT ![r] = "bcast_center"]
    /\ UNCHANGED <<fitlog, calls, varied_params, size, center, powers, derivatives, argX, argY,
                   warned, visits, last>>

\* Line 63.
BcastPowers(r) ==
    /\ pc[r] = "bcast_powers"
    /\ r # 0 => chan.powers.some
    /\ chan' = IF r = 0 THEN [chan EXCEPT !.powers = powers[0]] ELSE chan
    /\ powers' = [powers EXCEPT ![r] = IF r = 0 THEN @ ELSE chan.powers]
    /\ pc' = [pc EXCEPT ![r] = "bcast_center"]
    /\ UNCHANGED <<fitlog, calls, varied_params, size, center, derivatives, argX, argY, warned,
                   visits, last>>

BcastCenterDropped(r) ==
    /\ pc[r] = "bcast_center"
    /\ r # 0 => chan.center.some
    /\ chan' = IF r = 0 THEN [chan EXCEPT !.center = center[0]] ELSE chan
    /\ pc' = [pc EXCEPT ![r] = "done"]
    /\ UNCHANGED <<fitlog, calls, varied_params, size, center, powers, derivatives, argX, argY,
                   warned, visits, last>>

\* Line 64; fit returns.
BcastCenter(r) ==
    /\ pc[r] = "bcast_center"
    /\ r # 0 => chan.center.some
    /\ chan' = IF r = 0 THEN [chan EXCEPT !.center = center[0]] ELSE chan
    /\ center' = [center EXCEPT ![r] = IF r = 0 THEN @ ELSE chan.center]
    /\ pc' = [pc EXCEPT ![r] = "done"]
    /\ UNCHANGED <<fitlog, calls, varied_params, size, powers, derivatives, argX, argY, warned,
                   visits, last>>

\* The points predict is called at: the center moved by the probe offsets.
Probes(c) ==
    {[i \in DOMAIN c |-> c[i] + off[i]] : off \in [DOMAIN c -> ProbeOffsets]}

PredictCallInPlace(r, X) ==
    /\ pc[r] = "done"
    /\ LET res == predict(X, center[r].v, powers[r].v, derivatives[r].v)
       IN  last' = [called |-> TRUE, X |-> X, ok |-> res.ok, out |-> res.out]
    /\ center' = [center EXCEPT
                     ![r] = IF Len(X) = Len(@.v)
                            THEN Some([i \in DOMAIN @.v |-> @.v[i] - X[i]])
                            ELSE @]
    /\ UNCHANGED <<fitlog, varied_params, size, pc, powers, derivatives, argX, argY,
                   chan, warned, visits, state, restored, batch>>

\* Lines 66-70 on rank r, fitted: the call predict(X) and its result.
PredictCall(r, X) ==
    /\ pc[r] = "done"
    /\ LET res == predict(X, center[r].v, powers[r].v, derivatives[r].v)
       IN  last' = [called |-> TRUE, X |-> X, ok |-> res.ok, out |-> res.out]
    /\ UNCHANGED <<fitlog, varied_params, size, pc, center, powers, derivatives, argX, argY,
                   chan, warned, visits, state, restored, batch>>

\* Rank r, fitted, calls predict(X).
Predict(r, X) ==
    /\ PredictCall(r, X)
    /\ UNCHANGED first

\* The same call where the first call is kept for comparison: first holds
\* it, and whether the same point (again) or another point (others) has been
\* predicted since.
PredictRecorded(r, X) ==
    /\ PredictCall(r, X)
    /\ first' = IF ~first.called
                THEN [called |-> TRUE, X |-> X, ok |-> last'.ok, out |-> last'.out,
                      again |-> FALSE, others |-> FALSE]
                ELSE [first EXCEPT !.again = @ \/ X = first.X,
                                   !.others = @ \/ X # first.X]

\* Rank r, fitted, calls predict(X) with a table X of points.
PredictRows(r, X) ==
    /\ pc[r] = "done"
    /\ LET res == predictRows(X, center[r].v, powers[r].v, derivatives[r].v)
       IN  batch' = [called |-> TRUE, X |-> X, ok |-> res.ok, out |-> res.out]
    /\ UNCHANGED <<fitlog, varied_params, size, pc, center, powers, derivatives, argX, argY,
                   chan, warned, visits, last, first, state, restored>>

\* The tables predict is called with: 1 .. MaxBatch points, each the center
\* moved by one probe offset in every component.
BatchProbes(c) ==
    LET points == {[i \in DOMAIN c |-> c[i] + off] : off \in ProbeOffsets}
    IN  UNION {[1 .. m -> points] : m \in 1 .. MaxBatch}

\* The sample collections of the repeated calls: no derivatives, the value
\* alone, every derivative up to MaxOrder.
YRefit(params) ==
    {NoDerivs} \cup
    {[derivs_none |-> FALSE,
      values |-> [deriv \in {a \in AllDerivs(params) : DerivTotal(params, a) <= k}
                     |-> SampleValue(params, deriv)]] : k \in {0, MaxOrder}}

\* The sample collections holding every derivative up to a total order.
YUpTo(params) ==
    {[derivs_none |-> FALSE,
      values |-> [deriv \in {a \in AllDerivs(params) : DerivTotal(params, a) <= k}
                     |-> SampleValue(params, deriv)]] : k \in 0 .. MaxOrder}

\* One-dimensional points whose length is not the number of parameters.
ShapeProbes(c) ==
    {[i \in 1 .. m |-> c[1] + off] :
        m \in (1 .. (Len(c) + 1)) \ {Len(c)}, off \in ProbeOffsets}

\* The attribute names __getstate__ copies, line 74.
StateNames == {"center", "derivatives", "powers"}

\* getattr(self, name) on rank r.
Getattr(r, name) ==
    CASE name = "center" -> center[r]
      [] name = "derivatives" -> derivatives[r]
      [] name = "powers" -> powers[r]
      [] name = "varied_params" -> Some(varied_params)
      [] OTHER -> None

getstateEmpty(r) == [name \in StateNames |-> None]

getstateWithParams(r) ==
    [name \in StateNames \cup {"varied_params"} |-> Getattr(r, name)]

\* __getstate__, lines 72-76: the dictionary it returns.
getstate(r) == [name \in StateNames |-> Getattr(r, name)]

\* An engine whose attributes are set from a dictionary of __getstate__:
\* each key becomes the attribute of that name.
setstate(dict) ==
    [center |-> dict["center"], derivatives |-> dict["derivatives"],
     powers |-> dict["powers"]]

GetStateMoved(r) ==
    /\ pc[r] = "done"
    /\ state' = Some(getstate(r))
    /\ center' = [center EXCEPT ![r] = None]
    /\ powers' = [powers EXCEPT ![r] = None]
    /\ derivatives' = [derivatives EXCEPT ![r] = None]
    /\ UNCHANGED <<fitlog, varied_params, size, pc, argX, argY,
                   chan, warned, visits, last, first, restored, batch>>

\* Rank r, fitted, calls __getstate__().
GetState(r) ==
    /\ pc[r] = "done"
    /\ state' = Some(getstate(r))
    /\ UNCHANGED <<fitlog, varied_params, size, pc, center, powers, derivatives, argX, argY,
                   chan, warned, visits, last, first, restored, batch>>

\* predict(X) on an engine restored from the dictionary held in state.
PredictRestored(X) ==
    /\ state.some
    /\ LET engine == setstate(state.v)
           res == predict(X, engine.center.v, engine.powers.v,
                          engine.derivatives.v)
       IN  restored' = [called |-> TRUE, X |-> X, ok |-> res.ok, out |-> res.out]
    /\ UNCHANGED <<fitlog, varied_params, size, pc, center, powers, derivatives, argX, argY,
                   chan, warned, visits, last, first, state, batch>>

\* A few sample collections for the runs over several processes: no
\* derivatives, every derivative up to MaxOrder, and one of them missing.
YFew(params) ==
    {NoDerivs} \cup
    {[derivs_none |-> FALSE,
      values |-> [deriv \in S |-> SampleValue(params, deriv)]] :
        S \in {AllDerivs(params)} \cup
              {AllDerivs(params) \ {deriv} : deriv \in AllDerivs(params)}}

\* The steps of fit after its call.
FitStep ==
    \/ \E r \in Ranks : BcastFlag(r)
    \/ \E r \in Ranks : Reset(r)
    \/ CollectRoot
    \/ \E r \in Ranks : BcastDerivatives(r)
    \/ \E r \in Ranks : BcastPowers(r)
    \/ \E r \in Ranks : BcastCenter(r)

\* The steps of fit after its call, and predict.
Step ==
    \/ FitStep
    \/ \E r \in Ranks :
           /\ pc[r] = "done"
           /\ \E X \in Probes(center[r].v) : Predict(r, X)

\* One process, every sample collection.
Init == InitSize(1)

Next ==
    \/ /\ pc[0] = "idle"
       /\ \E X \in XSamples(varied_params), Y \in YSamples(varied_params) :
              FitEnterRoot(X, Y)
    \/ Step

Spec == Init /\ [][Next]_vars

\* Up to NRanks processes, a few sample collections.
InitMPI == \E n \in 1 .. NRanks : InitSize(n)

NextMPI ==
    \/ /\ pc[0] = "idle"
       /\ \E Y \in YFew(varied_params) :
              FitEnterRoot(GridSamples(varied_params, 0), Y)
    \/ \E r \in Ranks : FitEnterOther(r)
    \/ Step

SpecMPI == InitMPI /\ [][NextMPI]_vars

\* The collectives of fit on rank r: lines 28, 30-31, 62, 63 and 64.
RankStep(r) ==
    /\ r \in Ranks
    /\ \/ BcastFlag(r)
       \/ Reset(r)
       \/ BcastDerivatives(r)
       \/ BcastPowers(r)
       \/ BcastCenter(r)

\* The loops of lines 44-60 run over finite products: rank 0 leaves the
\* collection.  CollectRoot is enabled exactly when pc[0] = "collect" and
\* every such step leaves that line, so this is weak fairness of CollectRoot.
CollectEnds == []<>(pc[0] # "collect")

\* Every rank is a running process: a rank inside fit goes on with its next
\* line as soon as it can.  Calling fit or predict is up to the caller.
FairSpecMPI ==
    SpecMPI /\ CollectEnds /\ \A r \in 0 .. (NRanks - 1) : WF_vars(RankStep(r))

\* One process, a few sample collections, and the calls of __getstate__ and
\* of predict on the fitted and on the restored engine.
InitState == InitSize(1)

NextState ==
    \/ /\ pc[0] = "idle"
       /\ \E Y \in YFew(varied_params) :
              FitEnterRoot(GridSamples(varied_params, 0), Y)
    \/ Step
    \/ GetState(0)
    \/ /\ state.some
       /\ \E X \in Probes(center[0].v) : PredictRestored(X)

SpecState == InitState /\ [][NextState]_vars

\* One process, a few sample collections, and calls of predict at points of
\* every length, the first of them kept.
InitCalls == InitSize(1)

NextCalls ==
    \/ /\ pc[0] = "idle"
       /\ \E Y \in YFew(varied_params) :
              FitEnterRoot(GridSamples(varied_params, 0), Y)
    \/ FitStep
    \/ /\ pc[0] = "done"
       /\ \E X \in Probes(center[0].v) \cup ShapeProbes(center[0].v) :
              PredictRecorded(0, X)

SpecCalls == InitCalls /\ [][NextCalls]_vars

\* One process, complete sample collections, and calls of predict with
\* tables of points.
InitBatch == InitSize(1)

NextBatch ==
    \/ /\ pc[0] = "idle"
       /\ \E Y \in YUpTo(varied_params) :
              FitEnterRoot(GridSamples(varied_params, 0), Y)
    \/ FitStep
    \/ /\ pc[0] = "done"
       /\ \E X \in BatchProbes(center[0].v) : PredictRows(0, X)

SpecBatch == InitBatch /\ [][NextBatch]_vars

\* One process, complete sample collections, tables X drawn value by value.
InitTables == InitSize(1)

NextTables ==
    \/ /\ pc[0] = "idle"
       /\ \E X \in XTables(varied_params), Y \in YUpTo(varied_params) :
              FitEnterRoot(X, Y)
    \/ FitStep

SpecTables == InitTables /\ [][NextTables]_vars

\* Up to NRanks processes and up to MaxFits calls of fit on each.
InitRefit == \E n \in 1 .. NRanks : InitSize(n)

NextRefit ==
    \/ /\ pc[0] = "idle"
       /\ \E X \in XSamples(varied_params), Y \in YRefit(varied_params) :
              FitEnterRoot(X, Y)
    \/ \E r \in Ranks : FitEnterOther(r)
    \/ /\ Ended(0)
       /\ \E X \in XSamples(varied_params), Y \in YRefit(varied_params) :
              FitAgainRoot(X, Y)
    \/ \E r \in Ranks : FitAgainOther(r)
    \/ FitStep

SpecRefit == InitRefit /\ [][NextRefit]_vars

\* The value of output component c of a derivative: components differ in
\* sign and in an offset growing with the order.
ComponentValue(params, deriv, c) ==
    (2 * c - 3) * SampleValue(params, deriv) + (c - 1) * (1 + DerivTotal(params, deriv))

\* The sample collections whose values are arrays of n components: every
\* derivative up to MaxOrder but at most two of them, or no derivative.
YVectors(params, n) ==
    {[derivs_none |-> FALSE,
      values |-> [deriv \in S |->
                     [c \in 1 .. n |-> ComponentValue(params, deriv, c)]]] :
        S \in {{}} \cup {AllDerivs(params) \ T : T \in {U \in SUBSET AllDerivs(params) :
                                                         Cardinality(U) <= 2}}}

\* Lines 33-61 on rank 0 where the values of Y are arrays.
CollectRootArr ==
    /\ pc[0] = "collect"
    /\ LET c == CollectArr(varied_params, argX, argY)
       IN  /\ center' = [center EXCEPT ![0] = Some(c.center)]
           /\ derivatives' = [derivatives EXCEPT ![0] = Some(c.derivatives)]
           /\ powers' = [powers EXCEPT ![0] = Some(c.powers)]
           /\ warned' = c.warned
           /\ visits' = c.visits
           /\ added' = c.added
    /\ pc' = [pc EXCEPT ![0] = "bcast_derivatives"]
    /\ UNCHANGED <<fits, before, calls, varied_params, size, argX, argY, chan, last>>

\* Rank r, fitted to array values, calls predict(X).
PredictArr(r, X) ==
    /\ pc[r] = "done"
    /\ LET res == predictArr(X, center[r].v, powers[r].v, derivatives[r].v)
       IN  last' = [called |-> TRUE, X |-> X, ok |-> res.ok, out |-> res.out]
    /\ UNCHANGED <<fitlog, calls, varied_params, size, pc, center, powers, derivatives,
                   argX, argY, chan, warned, visits>>

\* One process, sample collections of array values with 1 .. MaxComps
\* components, and predict at points of every length.
InitVector == InitSize(1)

NextVector ==
    \/ /\ pc[0] = "idle"
       /\ \E n \in 1 .. MaxComps :
              \E Y \in YVectors(varied_params, n) :
                  FitEnterRoot(GridSamples(varied_params, 0), Y)
    \/ BcastFlag(0)
    \/ Reset(0)
    \/ CollectRootArr
    \/ BcastDerivatives(0)
    \/ BcastPowers(0)
    \/ BcastCenter(0)
    \/ /\ pc[0] = "done"
       /\ \E X \in Probes(center[0].v) \cup ShapeProbes(center[0].v) :
              PredictArr(0, X)

SpecVector == InitVector /\ [][NextVector]_vars

(***************************************************************************)
(* Properties.  A coefficient c of the code is held as the integer         *)
(* c * Unit, so "coefficient = q" reads "held value = q * Unit".           *)
(***************************************************************************)
\* The row of powers a degree is stored as.
RowOf(deriv) == DerivOrders(varied_params, deriv)

\* The rows of powers[r] equal to a given row.
RowsEqual(r, row) == {j \in DOMAIN powers[r].v : powers[r].v[j] = row}

\* The all-zero multi-index.
ZeroRow == [i \in DOMAIN varied_params |-> 0]

\* The number of tuples of parameter indices whose histogram is a given row.
Paths(row) ==
    LET ndim == Len(row)
        k == SumSeq(row)
    IN  Cardinality({j \in 1 .. IntPow(ndim, k) :
                        bincount(ProductAt(ndim, k, j), ndim) = row})

\* A degree the enumeration of fit reaches and line 47 does not discard.
Enumerated(deriv) ==
    /\ DerivTotal(varied_params, deriv) <= MaxTotalOrder(varied_params, argY)
    /\ ~Skipped(RowOf(deriv), DerivTotal(varied_params, deriv),
                MaxParamOrder(varied_params, argY))

\* C1: after fit, every multi-index a present in Y and not discarded by the
\* skip rule has exactly one row of powers, and its coefficient is
\* Y[a] / prod_i (a_i)!, that is (number of index tuples with histogram a)
\* * Y[a] / k! for k the total order of a: repeated visits are added into
\* the one entry.
C1_AccumulatedCoefficient ==
    \A r \in Ranks :
        pc[r] = "done" =>
            \A a \in DOMAIN argY.values :
                Enumerated(a) =>
                    /\ Cardinality(RowsEqual(r, RowOf(a))) = 1
                    /\ \A j \in RowsEqual(r, RowOf(a)) :
                        /\ derivatives[r].v[j]
                               * ProdSeq([i \in DOMAIN RowOf(a) |->
                                             Factorial(RowOf(a)[i])])
                             = Unit * argY.values[a]
                        /\ derivatives[r].v[j]
                               * Factorial(DerivTotal(varied_params, a))
                             = Paths(RowOf(a)) * Unit * argY.values[a]

\* A fitted state holding a non-zero coefficient for a mixed second-order
\* term, which two index tuples reach.
C1_Witness ==
    \E r \in Ranks :
        /\ pc[r] = "done"
        /\ \E j \in DOMAIN powers[r].v :
            /\ Paths(powers[r].v[j]) >= 2
            /\ Cardinality({i \in DOMAIN powers[r].v[j] :
                               powers[r].v[j][i] > 0}) >= 2
            /\ derivatives[r].v[j] # 0

\* The samples of the one-parameter scenario: f = 5, f' = 2, f'' = 6.
C2_Y ==
    [derivs_none |-> FALSE,
     values |-> ([a |-> 0] :> 5) @@ ([a |-> 1] :> 2) @@ ([a |-> 2] :> 6)]

\* C2: one varied parameter, Y holding the orders 0, 1, 2 with values 5, 2, 6:
\* fit gives the terms (power 0, coeff 5), (power 1, coeff 2), (power 2,
\* coeff 3) in that order, and predict at center + 1 returns 10.
C2_OneParameterScenario ==
    (varied_params = <<"a">> /\ pc[0] = "done" /\ argY = C2_Y) =>
        /\ powers[0].v = << <<0>>, <<1>>, <<2>> >>
        /\ derivatives[0].v = <<5 * Unit, 2 * Unit, 3 * Unit>>
        /\ (last.called /\ last.X = <<center[0].v[1] + 1>>) =>
               (last.ok /\ last.out = 10 * Unit)

\* The scenario fitted and predict called at center + 1.
C2_Witness ==
    /\ varied_params = <<"a">>
    /\ pc[0] = "done"
    /\ argY = C2_Y
    /\ last.called
    /\ last.X = <<center[0].v[1] + 1>>

\* The surrogate written out: the sum over the terms j of D[j] times the
\* product over the parameters i of (X[i] - c[i]) ^ P[j][i], a factor with
\* power 0 counting as 1.
TaylorSum(X, c, P, D) ==
    SumSeq([j \in DOMAIN D |->
               D[j] * ProdSeq([i \in DOMAIN c |->
                                  IF P[j][i] = 0 THEN 1
                                  ELSE IntPow(X[i] - c[i], P[j][i])])])

\* C3: for every fitted state and every point X with as many components as
\* center, predict(X) returns the sum over the terms of derivatives[j] times
\* the product of the offsets raised to powers[j], a zero power counting as 1.
\* It is stated for the fits of a Y that holds at least one derivative entry.
C3_PredictIsTaylorSum ==
    \A r \in Ranks :
        (/\ pc[r] = "done"
         /\ DOMAIN argY.values # {}
         /\ last.called
         /\ Len(last.X) = Len(center[r].v)) =>
            /\ last.ok
            /\ last.out = TaylorSum(last.X, center[r].v, powers[r].v,
                                    derivatives[r].v)

\* The same for the fitted states that hold at least one term.
PredictIsTaylorSumOfTerms ==
    \A r \in Ranks :
        (/\ pc[r] = "done"
         /\ last.called
         /\ Len(last.X) = Len(center[r].v)
         /\ Len(powers[r].v) > 0) =>
            /\ last.ok
            /\ last.out = TaylorSum(last.X, center[r].v, powers[r].v,
                                    derivatives[r].v)

\* C4: predict at X = center returns exactly the coefficient accumulated for
\* the all-zero multi-index, whatever the coefficients of total order >= 1.
C4_PredictAtCenter ==
    \A r \in Ranks :
        (pc[r] = "done" /\ last.called /\ last.X = center[r].v) =>
            \A j \in RowsEqual(r, ZeroRow) :
                last.ok /\ last.out = derivatives[r].v[j]

\* predict called at the center of a model holding a non-zero order-0
\* coefficient and a non-zero coefficient of higher order.
C4_Witness ==
    \E r \in Ranks :
        /\ pc[r] = "done"
        /\ last.called
        /\ last.X = center[r].v
        /\ \E j \in RowsEqual(r, ZeroRow) : derivatives[r].v[j] # 0
        /\ \E j \in DOMAIN powers[r].v :
               powers[r].v[j] # ZeroRow /\ derivatives[r].v[j] # 0

\* The points that differ from X in component i alone, if at all.
VaryComponent(X, i) == {[X EXCEPT ![i] = X[i] + off] : off \in -2 .. 2}

\* C5: for every term j and parameter i with powers[j][i] = 0, the basis
\* value of term j is the same for any two inputs that differ only in
\* component i, whatever the sign of the offset: the factor of a zero power
\* is exactly 1.
C5_ZeroPowerNeutral ==
    \A r \in Ranks :
        (pc[r] = "done" /\ last.called /\ last.ok) =>
            \A j \in DOMAIN powers[r].v : \A i \in DOMAIN powers[r].v[j] :
                powers[r].v[j][i] = 0 =>
                    /\ MaskedPower(Diffs(last.X, center[r].v)[i], 0) = 1
                    /\ \A X2 \in VaryComponent(last.X, i) :
                           BasisValue(Diffs(X2, center[r].v), powers[r].v[j])
                             = BasisValue(Diffs(last.X, center[r].v),
                                          powers[r].v[j])

\* predict called below the center in a component on which some term has a
\* zero power while that term's basis value is not zero.
C5_Witness ==
    \E r \in Ranks :
        /\ pc[r] = "done"
        /\ last.called
        /\ last.ok
        /\ \E j \in DOMAIN powers[r].v : \E i \in DOMAIN powers[r].v[j] :
            /\ powers[r].v[j][i] = 0
            /\ powers[r].v[j] # ZeroRow
            /\ last.X[i] < center[r].v[i]
            /\ BasisValue(Diffs(last.X, center[r].v), powers[r].v[j]) # 0

\* The multi-indices over the varied parameters of total order exactly k.
DerivsOfOrder(k) ==
    {a \in AllDerivs(varied_params) : DerivTotal(varied_params, a) = k}

\* C6: when Y contains every multi-index of total order <= K over the d
\* varied parameters, fit visits d^k index tuples at each total order k <= K
\* and powers holds exactly C(k + d - 1, d - 1) rows of total order k, one
\* for each distinct multi-index of that order.
C6_EnumerationCounts ==
    \A r \in Ranks :
        pc[r] = "done" =>
            \A K \in 0 .. MaxOrder :
                (\A k \in 0 .. K : DerivsOfOrder(k) \subseteq DOMAIN argY.values)
                =>
                \A k \in 0 .. K :
                    LET d == Len(varied_params)
                        rows == {j \in DOMAIN powers[r].v :
                                    SumSeq(powers[r].v[j]) = k}
                    IN  /\ visits[k + 1] = IntPow(d, k)
                        /\ Cardinality(rows) = Binomial(k + d - 1, d - 1)
                        /\ {powers[r].v[j] : j \in rows}
                             = {RowOf(a) : a \in DerivsOfOrder(k)}
                        /\ Cardinality({powers[r].v[j] : j \in rows})
                             = Cardinality(rows)

\* Two parameters, every multi-index up to order MaxOrder supplied.
C6_Witness ==
    /\ pc[0] = "done"
    /\ Len(varied_params) = 2
    /\ DOMAIN argY.values = AllDerivs(varied_params)
    /\ Len(visits) = MaxOrder + 1
    /\ visits[MaxOrder + 1] > Binomial(MaxOrder + 1, 1)

\* C7: after every fit that returns normally, powers and derivatives have
\* the same number of entries and no two rows of powers are equal.
C7_RowsUnique ==
    \A r \in Ranks :
        pc[r] = "done" =>
            /\ Len(powers[r].v) = Len(derivatives[r].v)
            /\ \A j, k \in DOMAIN powers[r].v :
                   powers[r].v[j] = powers[r].v[k] => j = k

\* A fitted state with a row that several index tuples reach.
C7_Witness ==
    \E r \in Ranks :
        /\ pc[r] = "done"
        /\ Len(powers[r].v) >= 3
        /\ \E j \in DOMAIN powers[r].v : Paths(powers[r].v[j]) >= 2

\* Y with the entry a added, of value zero.
WithZero(Y, a) ==
    [Y EXCEPT !.values = [d \in DOMAIN Y.values \cup {a} |->
                             IF d = a THEN 0 ELSE Y.values[d]]]

\* The degrees the enumeration reaches, line 47 keeps and Y does not hold.
MissingDerivs ==
    {a \in AllDerivs(varied_params) :
        Enumerated(a) /\ a \notin DOMAIN argY.values}

\* What predict returns at X on the model fitted from the samples X0 and Y.
PredictOfFit(X0, Y, X) ==
    LET c == Collect(varied_params, X0, Y)
    IN  predict(X, c.center, c.powers, c.derivatives)

\* C8: when an enumerated, non-skipped multi-index is absent from Y, fit
\* does not fail: it warns naming that multi-index, goes on, and the model
\* predicts at every point what a model fitted from the same Y with the
\* missing entry present, of value zero, predicts.
\* It is stated for the fits of a Y that holds at least one derivative entry.
C8_MissingAssumedZero ==
    \A r \in Ranks :
        (pc[r] = "done" /\ DOMAIN argY.values # {}) =>
            \A a \in MissingDerivs :
                /\ a \in warned
                /\ last.called =>
                       PredictOfFit(argX, WithZero(argY, a), last.X)
                         = [ok |-> last.ok, out |-> last.out]

\* The same for the fitted states that hold at least one term.
MissingAssumedZeroOfTerms ==
    \A r \in Ranks :
        (pc[r] = "done" /\ Len(powers[r].v) > 0) =>
            \A a \in MissingDerivs :
                /\ a \in warned
                /\ last.called =>
                       PredictOfFit(argX, WithZero(argY, a), last.X)
                         = [ok |-> last.ok, out |-> last.out]

C10_NoDerivativesRejected ==
    \A r \in Ranks :
        (argY.derivs_none \/ DOMAIN argY.values = {}) =>
            pc[r] \in {"idle", "bcast_flag", "raised"}

\* Of the two cases, the one the code tests for: Y.derivs is None.
NoneDerivsRejected ==
    \A r \in Ranks :
        argY.derivs_none => pc[r] \in {"idle", "bcast_flag", "raised"}

(***************************************************************************)
(* The broadcasts of lines 62-64 and the ranks of the communicator.        *)
(***************************************************************************)
\* fit has returned on every rank of the communicator.
AllReturned == \A r \in Ranks : pc[r] = "done"

\* C11: once fit has returned on every rank, every rank holds the center,
\* the powers and the derivatives rank 0 computed from its samples, whatever
\* the number of ranks.
C11_AllRanksAgree ==
    AllReturned =>
        LET c == Collect(varied_params, argX, argY)
        IN  \A r \in Ranks :
                /\ center[r] = Some(c.center)
                /\ powers[r] = Some(c.powers)
                /\ derivatives[r] = Some(c.derivatives)
                /\ center[r] = center[0]
                /\ powers[r] = powers[0]
                /\ derivatives[r] = derivatives[0]

C11_Witness ==
    /\ size = NRanks
    /\ AllReturned
    /\ Len(powers[size - 1].v) > 1
    /\ warned # {}

(***************************************************************************)
(* __getstate__ and the engine restored from its dictionary.               *)
(***************************************************************************)
\* C12: an engine whose center, derivatives and powers are set from the
\* dictionary of __getstate__ gives, at every probe point, the result predict
\* gives on the fitted engine; nothing else is needed.
C12_RestoredPredictsAlike ==
    (last.called /\ restored.called /\ restored.X = last.X) =>
        /\ restored.ok = last.ok
        /\ restored.out = last.out

C12_Witness ==
    /\ last.called
    /\ restored.called
    /\ restored.X = last.X
    /\ restored.X # center[0].v
    /\ restored.ok
    /\ restored.out # 0
    /\ Len(powers[0].v) > 1

\* C13: the dictionary of __getstate__ has exactly the keys center,
\* derivatives and powers, and each value is the attribute of that name.
C13_StateKeysAndValues ==
    state.some =>
        /\ DOMAIN state.v = {"center", "derivatives", "powers"}
        /\ state.v["center"] = center[0]
        /\ state.v["derivatives"] = derivatives[0]
        /\ state.v["powers"] = powers[0]

C13_Witness ==
    /\ state.some
    /\ Len(state.v["powers"].v) > 1
    /\ Len(state.v["center"].v) > 1

(***************************************************************************)
(* Repeated calls of predict, and points of another length.                *)
(***************************************************************************)
\* C14: predict called again with the input of an earlier call, on the same
\* fitted state and after any number of other calls of predict, gives the
\* result of the earlier call.
C14_PredictRepeatable ==
    (first.called /\ last.called /\ last.X = first.X) =>
        /\ last.ok = first.ok
        /\ last.out = first.out

C14_Witness ==
    /\ first.called
    /\ first.again
    /\ first.others
    /\ last.X = first.X
    /\ last.X # center[0].v
    /\ last.ok
    /\ last.out # 0

\* C15: predict raises, and returns nothing, whenever the point does not have
\* len(center) components, a point of a single component included.
C15_WrongLengthRaises ==
    (last.called /\ Len(last.X) # Len(center[0].v)) => ~last.ok

(***************************************************************************)
(* The orders fit enumerates and the skip rule of line 47.                 *)
(***************************************************************************)
\* fit has just returned on rank 0: nothing has been called since.
FitReturned == pc[0] = "done" /\ ~last.called

\* The largest total order among the derivatives of Y, 0 when there is none.
LargestOrder ==
    SetMax({0} \cup {DerivTotal(varied_params, deriv) :
                         deriv \in DOMAIN argY.values})

\* C16: fit enumerates no tuple, and warns about no multi-index, of a total
\* order above the largest total order present in Y; with two parameters and
\* derivatives of total order at most 1 only, (1,1) is neither enumerated nor
\* warned about.
C16_NothingAboveLargestOrder ==
    FitReturned =>
        /\ Len(visits) = LargestOrder + 1
        /\ \A deriv \in warned : DerivTotal(varied_params, deriv) <= LargestOrder
        /\ \A j \in DOMAIN powers[0].v : SumSeq(powers[0].v[j]) <= LargestOrder
        /\ (Len(varied_params) = 2 /\ LargestOrder <= 1) =>
               /\ Len(visits) <= 2
               /\ Deriv(varied_params, <<1, 1>>) \notin warned

C16_Witness ==
    /\ FitReturned
    /\ Len(varied_params) = 2
    /\ LargestOrder = 1
    /\ Len(visits) = 2
    /\ visits[2] = 2
    /\ warned # {}
    /\ Len(powers[0].v) = 2

\* The parameters a multi-index has a strictly positive order in.
Active(orders) == {i \in DOMAIN orders : orders[i] > 0}

\* The largest order of parameter i among the derivatives of Y.
LargestOrderIn(i) ==
    SetMax({0} \cup {DerivOrders(varied_params, deriv)[i] :
                         deriv \in DOMAIN argY.values})

\* An enumerated candidate was kept by line 47 when it reached line 50: it
\* has a row of powers or was named in a warning.
Kept(deriv) == RowsEqual(0, RowOf(deriv)) # {} \/ deriv \in warned

\* The multi-index of order k in parameter i alone.
Pure(i, k) ==
    Deriv(varied_params, [n \in DOMAIN varied_params |-> IF n = i THEN k ELSE 0])

\* C18: a candidate of total order k is discarded by the skip rule exactly
\* when k > 0 and k exceeds the smallest max_param_order over the parameters
\* it has a positive order in; the order-0 candidate is never discarded, and
\* a candidate of order k in parameter i alone is kept exactly when
\* k <= max_param_order[i].
C18_SkipRule ==
    FitReturned =>
        /\ \A deriv \in AllDerivs(varied_params) :
               LET orders == RowOf(deriv)
                   k == SumSeq(orders)
               IN  k <= LargestOrder =>
                       (~Kept(deriv) <=>
                           (k > 0 /\ k > SetMin({LargestOrderIn(i) : i \in Active(orders)})))
        /\ Kept(Deriv(varied_params, ZeroRow))
        /\ \A i \in DOMAIN varied_params : \A k \in 0 .. MaxOrder :
               Kept(Pure(i, k)) <=> k <= LargestOrderIn(i)

C18_Witness ==
    /\ FitReturned
    /\ Len(varied_params) = 2
    /\ LargestOrderIn(1) = 2
    /\ LargestOrderIn(2) = 1
    /\ Kept(Pure(1, 2))
    /\ ~Kept(Pure(2, 2))
    /\ ~Kept(Deriv(varied_params, <<1, 1>>))
    /\ Kept(Pure(2, 1))

\* The multi-indices whose total order is at most the smallest truncation
\* order m[i] over the parameters they have a positive order in.
Admissible(m) ==
    {deriv \in AllDerivs(varied_params) :
        LET orders == RowOf(deriv)
        IN  \A i \in Active(orders) : SumSeq(orders) <= m[i]}

\* C19: when the multi-indices of Y are exactly the admissible ones for some
\* truncation orders m, fit warns about no missing derivative and the rows of
\* powers are exactly the admissible multi-indices.
C19_AdmissibleSetFitsExactly ==
    FitReturned =>
        \A m \in [DOMAIN varied_params -> 0 .. MaxOrder] :
            DOMAIN argY.values = Admissible(m) =>
                /\ warned = {}
                /\ Range(powers[0].v) = {RowOf(deriv) : deriv \in Admissible(m)}
                /\ Len(powers[0].v) = Cardinality(Admissible(m))

C19_Witness ==
    /\ FitReturned
    /\ Len(varied_params) = 2
    /\ DOMAIN argY.values = Admissible(<<MaxOrder, 1>>)
    /\ Len(powers[0].v) = MaxOrder + 2
    /\ warned = {}

(***************************************************************************)
(* predict on a table of points.                                           *)
(***************************************************************************)
\* C17: predict on a batch of m points returns, for each point of the batch,
\* the value predict returns on that point alone, for every m >= 1 and also
\* when m is the number of fitted terms.  (The output of lines 66-70 has no
\* axis for the points; its one number is taken as the value of each.)
C17_BatchIsPointwise ==
    batch.called =>
        /\ batch.ok
        /\ \A k \in DOMAIN batch.X :
               LET alone == predict(batch.X[k], center[0].v, powers[0].v,
                                    derivatives[0].v)
               IN  alone.ok /\ batch.out = alone.out

(***************************************************************************)
(* The attributes of the other ranks during fit.                           *)
(***************************************************************************)
\* The attributes of rank r that carry a fitted value.
Fitted(r) ==
    {name \in StateNames : Getattr(r, name).some}

\* C20: at no point of a fit does a rank other than 0 hold some but not all
\* of center, powers and derivatives with their fitted values.
C20_NoPartialState ==
    \A r \in Ranks \ {0} : Fitted(r) = {} \/ Fitted(r) = StateNames

\* C20, as the code has it: a rank other than 0 holds none of the three
\* before line 62 assigns, all of them once fit has returned, and in between
\* derivatives alone after line 62 and derivatives and powers after line 63.
C20_PartialOnlyBetweenBroadcasts ==
    \A r \in Ranks \ {0} :
        Fitted(r) = CASE pc[r] = "done" -> StateNames
                      [] pc[r] = "bcast_center" -> {"derivatives", "powers"}
                      [] pc[r] = "bcast_powers" -> {"derivatives"}
                      [] OTHER -> {}

C20_Witness ==
    /\ size > 1
    /\ pc[1] = "bcast_center"
    /\ Fitted(1) = {"derivatives", "powers"}
    /\ Len(powers[1].v) > 1
    /\ pc[0] = "done"

(***************************************************************************)
(* The rows of powers: the first row and the order of the rows.            *)
(***************************************************************************)
\* The all-zero multi-index as a Deriv.
ZeroDeriv == Deriv(varied_params, ZeroRow)

FirstIndices(row) ==
    [pos \in 1 .. SumSeq(row) |->
        (CHOOSE i \in DOMAIN row :
            /\ SumSeq(SubSeq(row, 1, i - 1)) < pos
            /\ pos <= SumSeq(SubSeq(row, 1, i))) - 1]

\* Whether s comes before t in lexicographic order (equal lengths).
LexLess(s, t) ==
    \E pos \in DOMAIN s :
        /\ s[pos] < t[pos]
        /\ \A q \in 1 .. (pos - 1) : s[q] = t[q]

\* C22: the rows of powers stand in the order the enumeration first meets
\* them: the total order never decreases along the rows, and of two rows of
\* the same total order the one whose lexicographically smallest generating
\* index sequence is smaller comes first; for two parameters the rows of
\* order 2 come as (2,0), (1,1), (0,2).
C22_RowsInEnumerationOrder ==
    FitReturned =>
        /\ \A j, k \in DOMAIN powers[0].v :
               j < k =>
                   LET rj == powers[0].v[j]
                       rk == powers[0].v[k]
                   IN  /\ SumSeq(rj) <= SumSeq(rk)
                       /\ SumSeq(rj) = SumSeq(rk) =>
                              LexLess(FirstIndices(rj), FirstIndices(rk))
        /\ (/\ Len(varied_params) = 2
            /\ {<<2, 0>>, <<1, 1>>, <<0, 2>>} \subseteq Range(powers[0].v)) =>
               SelectSeq(powers[0].v, LAMBDA row : SumSeq(row) = 2)
                   = << <<2, 0>>, <<1, 1>>, <<0, 2>> >>

C22_Witness ==
    /\ FitReturned
    /\ Len(varied_params) = 2
    /\ Len(powers[0].v) >= 6
    /\ powers[0].v[4] = <<2, 0>>
    /\ powers[0].v[5] = <<1, 1>>
    /\ powers[0].v[6] = <<0, 2>>

(***************************************************************************)
(* The center.                                                             *)
(***************************************************************************)
\* The distinct values sampled for parameter i.
Sampled(i) == {argX[r][i] : r \in DOMAIN argX}

\* Whether twice c is the sum of the two middle values of S (of its middle
\* value taken twice when S has an odd number of values).
IsMedianOf(c, S) ==
    \E lo, hi \in S :
        /\ lo <= hi
        /\ Cardinality({y \in S : y < lo}) = Cardinality({y \in S : y > hi})
        /\ {y \in S : lo < y /\ y < hi} = {}
        /\ Cardinality(S) % 2 = 1 <=> lo = hi
        /\ 2 * c = lo + hi

\* C24: for each parameter, center is the median of the set of distinct
\* values sampled for it in X, so it is the same for tables that repeat or
\* reorder rows, and it is the middle value when that set has an odd number
\* of values.
C24_CenterIsMedianOfDistinct ==
    center[0].some =>
        \A i \in DOMAIN varied_params :
            /\ IsMedianOf(center[0].v[i], Sampled(i))
            /\ Cardinality(Sampled(i)) % 2 = 1 =>
                   /\ center[0].v[i] \in Sampled(i)
                   /\ Cardinality({y \in Sampled(i) : y < center[0].v[i]})
                          = Cardinality({y \in Sampled(i) : y > center[0].v[i]})

C24_Witness ==
    /\ center[0].some
    /\ Len(argX) = 3
    /\ [r \in DOMAIN argX |-> argX[r][1]] = <<6, 0, 6>>
    /\ center[0].v[1] = 3
    /\ Len(varied_params) = 2
    /\ Sampled(2) = {0, 2, 6}
    /\ center[0].v[2] = 2

(***************************************************************************)
(* The prefactor of the single contributions.                              *)
(***************************************************************************)
\* C25: every single contribution added during fit at total order k equals
\* Y[a] / k!, for every k from 0 to the maximum order: the prefactor is
\* divided by k once when the enumeration reaches order k, whatever was
\* skipped or missing at the lower orders.
C25_ContributionIsValueOverFactorial ==
    center[0].some =>
        \A n \in DOMAIN added :
            LET k == DerivTotal(varied_params, added[n].degree)
            IN  added[n].value * Factorial(k) = Unit * argY.values[added[n].degree]

C25_Witness ==
    /\ center[0].some
    /\ Len(varied_params) = 2
    /\ warned # {}
    /\ \E n \in DOMAIN added :
           /\ DerivTotal(varied_params, added[n].degree) = MaxOrder
           /\ added[n].value # 0
    /\ \E deriv \in AllDerivs(varied_params) :
           /\ DerivTotal(varied_params, deriv) = 1
           /\ ~Kept(deriv)

C23_RefitAsFresh ==
    (pc[0] = "done" /\ fits[0] >= 2) =>
        LET c == Collect(varied_params, argX, argY)
        IN  /\ center[0] = Some(c.center)
            /\ powers[0] = Some(c.powers)
            /\ derivatives[0] = Some(c.derivatives)
            /\ (/\ before[0].X = argX
                /\ before[0].Y = argY
                /\ fits[0] = 2) =>
                   /\ center[0] = before[0].center
                   /\ powers[0] = before[0].powers
                   /\ derivatives[0] = before[0].derivatives

C23_Witness ==
    /\ pc[0] = "done"
    /\ fits[0] = 2
    /\ before[0].powers.some
    /\ Len(before[0].powers.v) > Len(powers[0].v)
    /\ before[0].center # center[0]
    /\ Len(powers[0].v) > 0

\* C28: when the Y of rank 0 has no derivative labels, every rank raises the
\* ValueError, and on every rank center, powers and derivatives keep the
\* values they had before the call: no state is reset and no further
\* broadcast is entered.
C28_RejectedBeforeReset ==
    \A r \in Ranks :
        /\ pc[r] = "raised" => Attributes(r) = [center |-> before[r].center,
                                                powers |-> before[r].powers,
                                                derivatives |-> before[r].derivatives]
        /\ (argY.derivs_none /\ fits[0] > 0 /\ fits[r] = fits[0]) =>
               /\ pc[r] \in {"bcast_flag", "raised"}
               /\ chan.flag.posted => pc[0] = "raised"
               /\ ~chan.derivatives.some
               /\ ~chan.powers.some
               /\ ~chan.center.some

C28_Witness ==
    /\ size = NRanks
    /\ fits[0] = 2
    /\ \A r \in Ranks :
           /\ pc[r] = "raised"
           /\ fits[r] = 2
           /\ powers[r].some
           /\ Len(powers[r].v) > 1

(***************************************************************************)
(* The collectives of fit and its return on every rank.                    *)
(***************************************************************************)
\* The lines a rank passes from one to the next: the flag of line 28, then
\* lines 62, 63 and 64, with the collection in between on rank 0 alone.
FitOrder(r) ==
    {<<"idle", "bcast_flag">>, <<"bcast_flag", "raised">>, <<"bcast_flag", "reset">>,
     <<"bcast_derivatives", "bcast_powers">>, <<"bcast_powers", "bcast_center">>,
     <<"bcast_center", "done">>} \cup
    (IF r = 0
     THEN {<<"reset", "collect">>, <<"collect", "bcast_derivatives">>}
     ELSE {<<"reset", "bcast_derivatives">>})

\* Every rank of the communicator has called fit.
AllEntered == \A r \in Ranks : pc[r] # "idle"

\* The call of fit has ended on every rank.
AllEnded == \A r \in Ranks : Ended(r)

\* C26: in a fit over any number of ranks only rank 0 enumerates, looks up
\* and accumulates; every rank goes through the same collectives in the same
\* order (the flag, then derivatives, powers and center); and once every
\* rank has called fit, fit ends on every rank: no rank waits for a
\* broadcast another rank never enters.
C26_FitEndsOnEveryRank ==
    /\ [][\A r \in Ranks :
              /\ pc'[r] # pc[r] => <<pc[r], pc'[r]>> \in FitOrder(r)
              /\ r # 0 =>
                     /\ derivatives'[r] \in {derivatives[r], None, chan.derivatives}
                     /\ powers'[r] \in {powers[r], None, chan.powers}
                     /\ center'[r] \in {center[r], None, chan.center}
              /\ (warned' # warned \/ visits' # visits \/ added' # added) =>
                     pc[0] = "collect" /\ pc'[0] = "bcast_derivatives"]_vars
    /\ AllEntered ~> AllEnded

C26_Witness ==
    /\ size = NRanks
    /\ \A r \in Ranks : pc[r] = "done" /\ fits[r] = 1
    /\ chan.center.some
    /\ Len(added) > 1

(***************************************************************************)
(* The attributes outside fit.                                             *)
(***************************************************************************)
\* The lines of fit a rank can be at between its call and its end.
InsideFit == {"bcast_flag", "reset", "collect", "bcast_derivatives", "bcast_powers",
              "bcast_center"}

\* C27: a call of predict or of __getstate__ leaves center, derivatives and
\* powers as they were; the three attributes of a rank change only in a step
\* of that rank's fit.
C27_AttributesChangeOnlyInFit ==
    [][/\ (last' # last \/ state' # state \/ restored' # restored) =>
              /\ center' = center
              /\ derivatives' = derivatives
              /\ powers' = powers
       /\ \A r \in Ranks :
              Attributes(r)' # Attributes(r) => pc[r] \in InsideFit]_vars

C27_Witness ==
    /\ pc[0] = "done"
    /\ state.some
    /\ last.called
    /\ restored.called
    /\ last.X # restored.X
    /\ state.v["powers"] = powers[0]
    /\ Len(powers[0].v) > 1

(***************************************************************************)
(* Derivative values with several output components.                       *)
(***************************************************************************)
\* The sample collection holding component c of every value of Y.
YComponent(Y, c) ==
    [derivs_none |-> Y.derivs_none,
     values |-> [deriv \in DOMAIN Y.values |-> Y.values[deriv][c]]]

\* The number of output components of the values of Y.
Components(Y) ==
    IF DOMAIN Y.values = {} THEN 0
    ELSE Len(Y.values[CHOOSE deriv \in DOMAIN Y.values : TRUE])

\* C30: with array values, predict(x) raises exactly when the surrogate
\* fitted to the c-th components alone raises, and otherwise has one entry
\* per component, entry c being the result of that scalar surrogate at x.
C30_ComponentsIndependent ==
    last.called =>
        \A c \in 1 .. Components(argY) :
            LET one == Collect(varied_params, argX, YComponent(argY, c))
                res == predict(last.X, one.center, one.powers, one.derivatives)
            IN  /\ last.ok = res.ok
                /\ last.ok => /\ Len(last.out) = Components(argY)
                              /\ last.out[c] = res.out

C30_Witness ==
    /\ last.called
    /\ last.ok
    /\ Len(last.out) > 1
    /\ last.out[1] # last.out[2]
    /\ last.out[1] # 0
    /\ last.X # center[0].v
    /\ Len(powers[0].v) > 2
    /\ Len(added) > Len(powers[0].v)
====
